---- MODULE Spec2Model ----
(***************************************************************************)
(* Model of the outage-schedule conversion pipeline                        *)
(*   src/api/excel_transformer.py        (parse_html_buffer,               *)
(*                                        transform_data,                  *)
(*                                        save_to_excel_buffer)            *)
(*   src/api/excel-transform.py          (handler)                         *)
(*   src/cloud-functions/excel-transform/main.py (excel_transform)         *)
(*   src/cloud-functions/excel-transform/excel_transformer.py              *)
(*                                                                         *)
(* TLA+ strings are ASCII, so the Korean literals of the source are        *)
(* romanised:                                                              *)
(*   jikhal = 직할, gangneung = 강릉, donghae = 동해, wonju = 원주,        *)
(*   taebaek = 태백, sokcho = 속초 (a site outside the allowed list),      *)
(*   hwalseonjageop = 활선작업, hwalseon = 활선, hyujeon = 휴전.           *)
(* Column names:                                                           *)
(*   saeopso_1cha = 사업소_1차, saeopso_2cha = 사업소_2차,                 *)
(*   byeonjeonso = 변전소, jeonap = 전압, seolbimyeong = 설비명,           *)
(*   gongsamyeong = 공사명, gongsagaeyo = 공사개요,                        *)
(*   hyujeonilsi_sijak = 휴전일시_시작, hyujeonilsi_jongryo = 휴전일시_종료,*)
(*   gubun = 구분, jugwanbuseo = 주관부서, gamdokja = 감독자,              *)
(*   dogeupeopchemyeong = 도급업체명, susokjeolcha = 수속절차,             *)
(*   hyujeonjongryu = 휴전종류, sunbeon = 순번, icha = 2차,                *)
(*   gubun2 = 구분2, anjeongwanrija = 안전관리자,                          *)
(*   icha_sunseo = 2차_순서, sijak_datetime = 시작_datetime.               *)
(***************************************************************************)
EXTENDS Integers, Sequences, FiniteSets, TLC

VARIABLES
    rows,           \* parser.rows after parser.feed(content): a sequence of rows of cells
    df,             \* the frame returned by parse_html_buffer
    out,            \* the outcome of transform_data: a frame, or a raised exception
    pc,             \* position in the extract/transform pair or in a handler
    adapter,        \* the HTTP adapter serving the request: "api", "cloud" or "none"
    method,         \* the request's HTTP method
    payload,        \* how the request carries the file
    response_type,  \* the request's X-Response-Type header
    sheet,          \* the worksheet built by save_to_excel_buffer
    response,       \* the response returned by the handler
    parser,         \* the HTMLTableParser object during parser.feed(content)
    tokens,         \* the tags and text of the document not yet scanned
    fed,            \* the number of tags and texts scanned so far
    doc,            \* the table structure the scanned document was written from
    target_date,    \* the target_date argument of filter_by_date
    other           \* the outcome of the cloud copy of the extract/transform pair

request == <<adapter, method, payload, response_type>>
scanner == <<parser, tokens, fed, doc>>
aside == <<scanner, target_date, other>>
vars == <<rows, df, out, pc, adapter, method, payload, response_type, sheet, response,
          parser, tokens, fed, doc, target_date, other>>

(***************************************************************************)
(* Bounds of the model.                                                    *)
(***************************************************************************)
MaxRecords == 2
MaxRows == 5

(***************************************************************************)
(* Outcomes of a call: a returned value or a raised exception.             *)
(***************************************************************************)
Return(v) == [raised |-> FALSE, value |-> v, exc |-> ""]
Raise(e) == [raised |-> TRUE, value |-> <<>>, exc |-> e]

\* pd.DataFrame() / pd.DataFrame([]): no rows and no columns; .empty is True.
EmptyFrame == <<>>
empty(frame) == Len(frame) = 0

(***************************************************************************)
(* HTMLTableParser, lines 17-52. Text is a sequence of characters, so that  *)
(* += and strip() are what they are in the source.                         *)
(***************************************************************************)
Whitespace == {" ", "\n"}

RECURSIVE lstrip(_)
lstrip(text) ==
    IF text # <<>> /\ Head(text) \in Whitespace THEN lstrip(Tail(text)) ELSE text

RECURSIVE rstrip(_)
rstrip(text) ==
    IF text # <<>> /\ text[Len(text)] \in Whitespace
    THEN rstrip(SubSeq(text, 1, Len(text) - 1))
    ELSE text

\* str.strip()
strip(text) == rstrip(lstrip(text))

\* __init__, lines 20-27. aliased says that current_row is the very list
\* object that was appended last to rows (rows.append(self.current_row)
\* appends the object, not a copy).
NewParser ==
    [ in_table     |-> FALSE,
      in_row       |-> FALSE,
      in_cell      |-> FALSE,
      rows         |-> <<>>,
      current_row  |-> <<>>,
      current_cell |-> <<>>,
      aliased      |-> FALSE ]

\* Variant of handle_starttag that opens a table only while no row has been
\* collected.
handle_starttag_first_table_only(p, tag) ==
    IF tag = "table" THEN [p EXCEPT !.in_table = (p.rows = <<>>)]
    ELSE IF tag = "tr" /\ p.in_table
         THEN [p EXCEPT !.in_row = TRUE, !.current_row = <<>>, !.aliased = FALSE]
    ELSE IF tag \in {"td", "th"} /\ p.in_row
         THEN [p EXCEPT !.in_cell = TRUE, !.current_cell = <<>>]
    ELSE p

\* handle_starttag, lines 29-37.
handle_starttag(p, tag) ==
    IF tag = "table" THEN [p EXCEPT !.in_table = TRUE]
    ELSE IF tag = "tr" /\ p.in_table
         THEN [p EXCEPT !.in_row = TRUE, !.current_row = <<>>, !.aliased = FALSE]
    ELSE IF tag \in {"td", "th"} /\ p.in_row
         THEN [p EXCEPT !.in_cell = TRUE, !.current_cell = <<>>]
    ELSE p

\* self.current_row.append(x): the list object grows, and with it the row of
\* rows that is the same object.
append_to_current_row(p, x) ==
    [p EXCEPT !.current_row = Append(@, x),
              !.rows = IF p.aliased
                       THEN [@ EXCEPT ![Len(@)] = Append(@, x)]
                       ELSE @]

\* handle_endtag, lines 39-48.
handle_endtag(p, tag) ==
    IF tag = "table" THEN [p EXCEPT !.in_table = FALSE]
    ELSE IF tag = "tr" /\ p.in_row
         THEN IF p.current_row # <<>>
              THEN [p EXCEPT !.in_row = FALSE, !.rows = Append(@, p.current_row),
                             !.aliased = TRUE]
              ELSE [p EXCEPT !.in_row = FALSE]
    ELSE IF tag \in {"td", "th"} /\ p.in_cell
         THEN append_to_current_row([p EXCEPT !.in_cell = FALSE], strip(p.current_cell))
    ELSE p

\* handle_data, lines 50-52.
handle_data(p, data) ==
    IF p.in_cell THEN [p EXCEPT !.current_cell = @ \o data] ELSE p

(***************************************************************************)
(* parse_html_buffer, lines 76-102: header skip and shaping.               *)
(***************************************************************************)
RECURSIVE SelectSeqBy(_, _)
\* A list comprehension / loop with continue: keep, in order, f(x) for the x with keep[x].
SelectSeqBy(s, keep) ==
    IF s = <<>> THEN <<>>
    ELSE IF keep[Head(s)] THEN <<Head(s)>> \o SelectSeqBy(Tail(s), keep)
         ELSE SelectSeqBy(Tail(s), keep)

\* The dict built at lines 83-99 from one row; Python row[i] is row[i + 1] here.
data_row(row) ==
    [ saeopso_1cha        |-> row[1],
      saeopso_2cha        |-> row[2],
      byeonjeonso         |-> row[3],
      jeonap              |-> row[4],
      seolbimyeong        |-> row[5],
      gongsamyeong        |-> row[6],
      gongsagaeyo         |-> row[7],
      hyujeonilsi_sijak   |-> row[8],
      hyujeonilsi_jongryo |-> row[9],
      gubun               |-> row[10],
      jugwanbuseo         |-> row[11],
      gamdokja            |-> row[12],
      dogeupeopchemyeong  |-> IF Len(row) > 12 THEN row[13] ELSE "",
      susokjeolcha        |-> IF Len(row) > 13 THEN row[14] ELSE "",
      hyujeonjongryu      |-> IF Len(row) > 14 THEN row[15] ELSE "" ]

\* Variant of data_rows that discards two rows instead of three.
data_rows_from_third(parser_rows) ==
    LET body == SubSeq(parser_rows, 3, Len(parser_rows))
        kept == SelectSeqBy(body, [r \in {body[i] : i \in 1..Len(body)} |-> Len(r) >= 15])
    IN  [i \in 1..Len(kept) |-> data_row(kept[i])]

\* for row in parser.rows[3:]: if len(row) >= 15: data_rows.append({...})
data_rows(parser_rows) ==
    LET body == SubSeq(parser_rows, 4, Len(parser_rows))
        kept == SelectSeqBy(body, [r \in {body[i] : i \in 1..Len(body)} |-> Len(r) >= 15])
    IN  [i \in 1..Len(kept) |-> data_row(kept[i])]

parse_html_buffer(parser_rows) ==
    IF Len(parser_rows) < 3 THEN EmptyFrame
    ELSE data_rows(parser_rows)

(***************************************************************************)
(* transform_data, lines 105-183.                                          *)
(***************************************************************************)
allowed_second_values == {"jikhal", "gangneung", "donghae", "wonju", "taebaek"}

\* second_order.get(x, 999), lines 148-151
second_order(x) ==
    CASE x = "jikhal"    -> 1
      [] x = "gangneung" -> 2
      [] x = "donghae"   -> 3
      [] x = "wonju"     -> 4
      [] x = "taebaek"   -> 5
      [] OTHER           -> 999

\* pd.to_datetime(..., errors='coerce') on one start-time string, line 154: the
\* timestamp as mmddHHMM within the year 2024, or NaT when the text is no date.
NaT == [isnat |-> TRUE, value |-> 0]
to_datetime(s) ==
    CASE s = "2024-05-01 09:00" -> [isnat |-> FALSE, value |-> 5010900]
      [] s = "2024-05-02 09:00" -> [isnat |-> FALSE, value |-> 5020900]
      [] s = "2024-05-03 18:00" -> [isnat |-> FALSE, value |-> 5031800]
      [] OTHER                  -> NaT

\* Variant of is_allowed that only rejects a blank site cell.
is_allowed_nonblank(row) == row.saeopso_2cha # ""

\* Lines 119-121: the secondary-site filter.
is_allowed(row) == row.saeopso_2cha \in allowed_second_values

\* Line 124.
is_live_work(row) == row.susokjeolcha = "hwalseonjageop"

\* Variant of output_row that takes 구분2 from 휴전종류 instead of 구분.
output_row_wrong_category(row) ==
    [ gubun               |-> IF is_live_work(row) THEN "hwalseon" ELSE "hyujeon",
      sunbeon             |-> 0,
      hyujeonilsi_sijak   |-> row.hyujeonilsi_sijak,
      hyujeonilsi_jongryo |-> row.hyujeonilsi_jongryo,
      icha                |-> row.saeopso_2cha,
      byeonjeonso         |-> row.byeonjeonso,
      jeonap              |-> row.jeonap,
      seolbimyeong        |-> row.seolbimyeong,
      gongsagaeyo         |-> row.gongsagaeyo,
      gubun2              |-> row.hyujeonjongryu,
      jugwanbuseo         |-> row.jugwanbuseo,
      gamdokja            |-> row.gamdokja,
      anjeongwanrija      |-> "" ]

\* Lines 126-140: the dict appended to output_data for one retained row.
output_row(row) ==
    [ gubun               |-> IF is_live_work(row) THEN "hwalseon" ELSE "hyujeon",
      sunbeon             |-> 0,
      hyujeonilsi_sijak   |-> row.hyujeonilsi_sijak,
      hyujeonilsi_jongryo |-> row.hyujeonilsi_jongryo,
      icha                |-> row.saeopso_2cha,
      byeonjeonso         |-> row.byeonjeonso,
      jeonap              |-> row.jeonap,
      seolbimyeong        |-> row.seolbimyeong,
      gongsagaeyo         |-> row.gongsagaeyo,
      gubun2              |-> row.gubun,
      jugwanbuseo         |-> row.jugwanbuseo,
      gamdokja            |-> row.gamdokja,
      anjeongwanrija      |-> "" ]

\* Lines 112-140: the loop over df.iterrows().
output_data(frame) ==
    LET kept == SelectSeqBy(frame, [r \in {frame[i] : i \in 1..Len(frame)} |-> is_allowed(r)])
    IN  [i \in 1..Len(kept) |-> output_row(kept[i])]

\* Record r extended with the fields of e (a new column on one row).
Extend(r, e) == [f \in DOMAIN r \cup DOMAIN e |-> IF f \in DOMAIN e THEN e[f] ELSE r[f]]
\* Record r without the fields in cols (DataFrame.drop(cols, axis=1) on one row).
Drop(r, cols) == [f \in DOMAIN r \ cols |-> r[f]]

\* Lines 145-154: pd.DataFrame(output_data) (index 0..n-1) with the two sort columns.
with_sort_columns(data) ==
    [i \in 1..Len(data) |->
        Extend(data[i], [ index          |-> i - 1,
                          icha_sunseo    |-> second_order(data[i].icha),
                          sijak_datetime |-> to_datetime(data[i].hyujeonilsi_sijak) ])]

\* Variant of datetime_less with na_position='first'.
datetime_less_nat_first(x, y) ==
    \/ x.isnat /\ ~y.isnat
    \/ ~x.isnat /\ ~y.isnat /\ x.value < y.value

\* Order of the datetime column under sort_values: ascending, NaT last.
datetime_less(x, y) ==
    \/ ~x.isnat /\ y.isnat
    \/ ~x.isnat /\ ~y.isnat /\ x.value < y.value

\* Variant of sort_key_less that sorts by the start-time alone.
sort_key_less_time_only(a, b) == datetime_less(a.sijak_datetime, b.sijak_datetime)

\* Order of sort_values(by=['2차_순서', '시작_datetime']), lines 162 and 168.
sort_key_less(a, b) ==
    \/ a.icha_sunseo < b.icha_sunseo
    \/ a.icha_sunseo = b.icha_sunseo /\ datetime_less(a.sijak_datetime, b.sijak_datetime)

\* Variant of insert_sorted that puts x before the elements of equal key
\* (an unstable sort).
insert_before_equal(s, x) ==
    LET later == {i \in 1..Len(s) : ~sort_key_less(s[i], x)}
        at    == IF later = {} THEN Len(s) + 1
                 ELSE CHOOSE i \in later : \A j \in later : i <= j
    IN  SubSeq(s, 1, at - 1) \o <<x>> \o SubSeq(s, at, Len(s))

\* x put into the sorted sequence s before the first element that sorts after it.
insert_sorted(s, x) ==
    LET later == {i \in 1..Len(s) : sort_key_less(x, s[i])}
        at    == IF later = {} THEN Len(s) + 1
                 ELSE CHOOSE i \in later : \A j \in later : i <= j
    IN  SubSeq(s, 1, at - 1) \o <<x>> \o SubSeq(s, at, Len(s))

RECURSIVE sort_values(_)
\* DataFrame.sort_values on two columns: a lexsort, which keeps equal keys in
\* their original order.
sort_values(frame) ==
    IF frame = <<>> THEN <<>>
    ELSE insert_sorted(sort_values(SubSeq(frame, 1, Len(frame) - 1)), frame[Len(frame)])

\* df_output[df_output['구분'] == g].copy(), lines 160 and 166.
group(frame, g) ==
    SelectSeqBy(frame, [r \in {frame[i] : i \in 1..Len(frame)} |-> r.gubun = g])

\* Variant of df_sorted_list that appends the live-work group first.
df_sorted_list_live_first(frame) ==
    LET df_shutdown == group(frame, "hyujeon")
        df_live     == group(frame, "hwalseon")
    IN  (IF ~empty(df_live) THEN <<sort_values(df_live)>> ELSE <<>>)
        \o (IF ~empty(df_shutdown) THEN <<sort_values(df_shutdown)>> ELSE <<>>)

\* Lines 157-169: the sorted groups, outage first; an empty group is not appended.
df_sorted_list(frame) ==
    LET df_shutdown == group(frame, "hyujeon")
        df_live     == group(frame, "hwalseon")
    IN  (IF ~empty(df_shutdown) THEN <<sort_values(df_shutdown)>> ELSE <<>>)
        \o (IF ~empty(df_live) THEN <<sort_values(df_live)>> ELSE <<>>)

RECURSIVE Flatten(_)
Flatten(list) == IF list = <<>> THEN <<>> ELSE Head(list) \o Flatten(Tail(list))

\* Variant of concat that keeps the index of every row (ignore_index=False).
concat_keep_index(list) == Flatten(list)

\* pd.concat(df_sorted_list, ignore_index=True), line 173: the index is reset to 0..N-1.
concat(list) ==
    LET all == Flatten(list)
    IN  [i \in 1..Len(all) |-> [all[i] EXCEPT !.index = i - 1]]

\* Variant of renumber that numbers from 0 (range(len(df_final))).
renumber_from_zero(frame) ==
    [i \in 1..Len(frame) |->
        [Drop(frame[i], {"icha_sunseo", "sijak_datetime"}) EXCEPT !.sunbeon = i - 1]]

\* Lines 177-181: drop of the sort columns, renumbering.
renumber(frame) ==
    [i \in 1..Len(frame) |->
        [Drop(frame[i], {"icha_sunseo", "sijak_datetime"}) EXCEPT !.sunbeon = i]]

\* Lines 145-183, given output_data. A frame built from an empty list has no
\* columns, so df_output['2차'] raises KeyError.
sort_stage(data) ==
    IF data = <<>> THEN Raise("KeyError")
    ELSE LET df_output == with_sort_columns(data)
             sorted    == df_sorted_list(df_output)
             df_final  == IF sorted # <<>> THEN concat(sorted) ELSE df_output
         IN  Return(renumber(df_final))

\* Variant of transform_data without the check of line 142.
transform_data_no_output_check(frame) ==
    IF empty(frame) THEN Return(EmptyFrame)
    ELSE sort_stage(output_data(frame))

transform_data(frame) ==
    IF empty(frame) THEN Return(EmptyFrame)
    ELSE LET data == output_data(frame)
         IN  IF data = <<>> THEN Return(EmptyFrame)
             ELSE sort_stage(data)

(***************************************************************************)
(* Inputs of the extract/transform pair: parser.rows as left by the scan.  *)
(***************************************************************************)
Sites == allowed_second_values \cup {"sokcho"}
Procedures == {"hwalseonjageop", "ilban"}
Starts == {"2024-05-01 09:00", "2024-05-02 09:00", "mijeong"}

\* A 15-cell table row; the substation cell names the row's position in the
\* document, so that rows with equal sort keys stay distinguishable.
Cells(i, site, proc, start) ==
    << "gangwon", site, "S" \o ToString(i), "154kV", "M.Tr", "jeomgeom gongsa",
       "jeomgeom", start, "2024-05-03 18:00", "dangil", "byeonjeonbu", "Kim",
       "eopche", proc, "gyehoek" >>

HeaderRows == << <<"title">>, <<"saeopso", "byeonjeonso">>, <<"1cha", "2cha">> >>

\* Well-formed documents: three header rows, then up to MaxRecords full rows
\* with every combination of site, procedure and start-time.
IsRecordDocument(d) ==
    \E n \in 0..MaxRecords :
        \E site \in [1..n -> Sites], proc \in [1..n -> Procedures], start \in [1..n -> Starts] :
            d = HeaderRows \o [i \in 1..n |-> Cells(i, site[i], proc[i], start[i])]

\* The row of each kind at position i of a document: a one-cell title row, a row
\* one cell short of 15, a full outage row, a 16-cell live-work row, and a full
\* row of a site outside the allowed list.
RowKinds == {"title", "short", "outage", "live", "foreign"}
RowOfKind(k, i) ==
    CASE k = "title"   -> <<"title">>
      [] k = "short"   -> SubSeq(Cells(i, "jikhal", "ilban", "2024-05-01 09:00"), 1, 14)
      [] k = "outage"  -> Cells(i, "jikhal", "ilban", "2024-05-02 09:00")
      [] k = "live"    -> Cells(i, "jikhal", "hwalseonjageop", "2024-05-01 09:00") \o <<"bigo">>
      [] k = "foreign" -> Cells(i, "sokcho", "ilban", "2024-05-01 09:00")

\* Arbitrary documents: up to MaxRows rows of any kind, header rows or not.
IsKindDocument(d) ==
    \E n \in 0..MaxRows :
        \E kind \in [1..n -> RowKinds] : d = [i \in 1..n |-> RowOfKind(kind[i], i)]

\* No worksheet yet, and no response yet.
NoSheet == [title |-> "", data |-> <<>>]
NoResponse == [status |-> 0, body |-> <<>>]

Init ==
    /\ IsRecordDocument(rows) \/ IsKindDocument(rows)
    /\ df = EmptyFrame
    /\ out = Return(EmptyFrame)
    /\ parser = NewParser /\ tokens = <<>> /\ fed = 0 /\ doc = <<>>
    /\ target_date = 0 /\ other = Return(EmptyFrame)
    /\ pc = "start"
    /\ adapter = "none" /\ method = "" /\ payload = "" /\ response_type = ""
    /\ sheet = NoSheet
    /\ response = NoResponse

\* df = parse_html_buffer(input_buffer)
ParseHtmlBuffer ==
    /\ pc = "start"
    /\ df' = parse_html_buffer(rows)
    /\ pc' = "parsed"
    /\ UNCHANGED <<rows, out, request, sheet, response, aside>>

\* transformed_df = transform_data(df)
TransformData ==
    /\ pc = "parsed"
    /\ out' = transform_data(df)
    /\ pc' = "transformed"
    /\ UNCHANGED <<rows, df, request, sheet, response, aside>>

Next == ParseHtmlBuffer \/ TransformData

Spec == Init /\ [][Next]_vars

(***************************************************************************)
(* parser.feed(content), lines 73-74: html.parser.HTMLParser calls          *)
(* handle_starttag, handle_endtag and handle_data once per tag or text of   *)
(* the content, in document order.                                          *)
(***************************************************************************)
MaxTableRows == 5
MaxInnerRows == 2
MaxTokens == 10

StartTag(tag) == [kind |-> "start", tag |-> tag, data |-> <<>>]
EndTag(tag) == [kind |-> "end", tag |-> tag, data |-> <<>>]
Text(data) == [kind |-> "data", tag |-> "", data |-> data]

feed(p, token) ==
    CASE token.kind = "start" -> handle_starttag(p, token.tag)
      [] token.kind = "end"   -> handle_endtag(p, token.tag)
      [] token.kind = "data"  -> handle_data(p, token.data)

\* Documents. A table is written from a letter and the number of cells of
\* each row; the first cell of a row is a th, the others are td, and the cell
\* in row r and column c of table x carries the text "x<r> <c>" with
\* whitespace around it; the text of a th comes in two pieces.
Char == <<"1", "2", "3", "4", "5", "6", "7", "8", "9", "a", "b", "c", "d", "e", "f", "g", "h">>

cell_text(x, r, c) == <<x, Char[r], " ", Char[c]>>
pad_left(c) == IF c % 2 = 1 THEN <<" ", "\n">> ELSE <<>>
pad_right(c) == IF c % 3 = 0 THEN <<"\n">> ELSE <<" ">>

cell_tag(c) == IF c = 1 THEN "th" ELSE "td"

CellTokens(x, r, c) ==
    IF c = 1
    THEN << StartTag(cell_tag(c)),
            Text(pad_left(c) \o <<x, Char[r]>>),
            Text(<<" ", Char[c]>> \o pad_right(c)),
            EndTag(cell_tag(c)) >>
    ELSE << StartTag(cell_tag(c)),
            Text(pad_left(c) \o cell_text(x, r, c) \o pad_right(c)),
            EndTag(cell_tag(c)) >>

RowTokens(x, r, width) ==
    <<StartTag("tr")>> \o Flatten([c \in 1..width |-> CellTokens(x, r, c)])
        \o <<EndTag("tr"), Text(<<"\n">>)>>

TableTokens(x, widths) ==
    <<StartTag("table"), StartTag("tbody")>>
        \o Flatten([r \in 1..Len(widths) |-> RowTokens(x, r, widths[r])])
        \o <<EndTag("tbody"), EndTag("table")>>

\* The row with a table nested in one of its cells.
NestingRowTokens(d) ==
    <<StartTag("tr")>>
        \o Flatten([c \in 1..d.lead |-> CellTokens("t", d.before + 1, c)])
        \o <<StartTag("td"), Text(<<"o", " ">>)>>
        \o TableTokens("n", d.inner)
        \o <<Text(<<" ", "p">>), EndTag("td")>>
        \o Flatten([c \in 1..d.trail |-> CellTokens("t", d.before + 1, d.lead + 1 + c)])
        \o <<EndTag("tr")>>

Tokens(d) ==
    CASE d.family = "single" -> TableTokens("t", d.widths)
      [] d.family = "two" ->
            TableTokens("t", d.first) \o <<Text(<<"\n">>)>> \o TableTokens("s", d.second)
      [] d.family = "nested" ->
            <<StartTag("table")>>
                \o Flatten([r \in 1..d.before |-> RowTokens("t", r, 2)])
                \o NestingRowTokens(d)
                \o Flatten([r \in 1..d.after |-> RowTokens("t", d.before + 1 + r, 2)])
                \o <<EndTag("table")>>

\* Widths of the rows of the work-schedule table: an empty row, a row one
\* cell short of a record, a record, and a record with one cell too many.
RowWidths == {0, 14, 15, 16}

IsDocumentOfOneTable(d) ==
    \E n \in 0..MaxTableRows : \E widths \in [1..n -> RowWidths] :
        d = [family |-> "single", widths |-> widths]

IsDocumentOfTwoTables(d) ==
    \E m \in 1..MaxInnerRows, n \in 1..MaxInnerRows :
        \E first \in [1..m -> 0..2], second \in [1..n -> 0..2] :
            d = [family |-> "two", first |-> first, second |-> second]

IsDocumentWithNestedTable(d) ==
    \E before \in 0..1, lead \in 0..2, trail \in 0..1, after \in 0..1, n \in 1..MaxInnerRows :
        \E inner \in [1..n -> 1..2] :
            d = [family |-> "nested", before |-> before, lead |-> lead, inner |-> inner,
                 trail |-> trail, after |-> after]

InitDocument ==
    /\ \/ IsDocumentOfOneTable(doc)
       \/ IsDocumentOfTwoTables(doc)
       \/ IsDocumentWithNestedTable(doc)
    /\ tokens = Tokens(doc)
    /\ parser = NewParser
    /\ rows = <<>>
    /\ fed = 0
    /\ pc = "feed"
    /\ df = EmptyFrame
    /\ out = Return(EmptyFrame)
    /\ target_date = 0 /\ other = Return(EmptyFrame)
    /\ adapter = "none" /\ method = "" /\ payload = "" /\ response_type = ""
    /\ sheet = NoSheet
    /\ response = NoResponse

\* One call of a handler by parser.feed; after the last one parser.rows is
\* what parse_html_buffer reads at line 76.
Feed ==
    /\ pc = "feed"
    /\ tokens # <<>>
    /\ parser' = feed(parser, Head(tokens))
    /\ tokens' = Tail(tokens)
    /\ fed' = fed + 1
    /\ rows' = parser'.rows
    /\ pc' = IF tokens' = <<>> THEN "start" ELSE "feed"
    /\ UNCHANGED <<df, out, request, sheet, response, doc, target_date, other>>

NextDocument == Feed \/ ParseHtmlBuffer

SpecDocument == InitDocument /\ [][NextDocument]_vars

\* The parser fed any tags and texts, one handler call at a time.
Tags == {"table", "tr", "td", "th", "br"}
Texts == {<<"x">>, <<" ">>}

InitParser ==
    /\ parser = NewParser
    /\ tokens = <<>>
    /\ doc = <<>>
    /\ rows = <<>>
    /\ fed = 0
    /\ pc = "scan"
    /\ df = EmptyFrame
    /\ out = Return(EmptyFrame)
    /\ target_date = 0 /\ other = Return(EmptyFrame)
    /\ adapter = "none" /\ method = "" /\ payload = "" /\ response_type = ""
    /\ sheet = NoSheet
    /\ response = NoResponse

Handle(token) ==
    /\ pc = "scan"
    /\ fed < MaxTokens
    /\ parser' = feed(parser, token)
    /\ rows' = parser'.rows
    /\ fed' = fed + 1
    /\ UNCHANGED <<df, out, pc, request, sheet, response, tokens, doc, target_date, other>>

HandleStarttag == \E tag \in Tags : Handle(StartTag(tag))
HandleEndtag == \E tag \in Tags : Handle(EndTag(tag))
HandleData == \E data \in Texts : Handle(Text(data))

NextParser == HandleStarttag \/ HandleEndtag \/ HandleData

SpecParser == InitParser /\ [][NextParser]_vars

(***************************************************************************)
(* save_to_excel_buffer, lines 186-305: the worksheet's title and data      *)
(* rows (fonts, fills, borders and widths are left out).                   *)
(***************************************************************************)
start_row == 6

\* Lines 254-269: the 13 cells written for one frame row; column 2 is a formula.
sheet_cells(r) ==
    << r.gubun, "=ROW()-5", r.hyujeonilsi_sijak, r.hyujeonilsi_jongryo, r.icha,
       r.byeonjeonso, r.jeonap, r.seolbimyeong, r.gongsagaeyo, r.gubun2,
       r.jugwanbuseo, r.gamdokja, r.anjeongwanrija >>

\* The value a worksheet cell shows in sheet row r: '=ROW()-5' (line 257) is
\* the number of the row minus 5, any other cell is its content.
cell_value(cell, r) == IF cell = "=ROW()-5" THEN r - 5 ELSE cell

\* Variant of save_to_excel_buffer that writes every record to start_row.
save_to_excel_buffer_one_row(frame, report_date) ==
    [ title |-> "iril hyujeongyehoek bogo(" \o report_date \o ")",
      data  |-> [r \in {start_row : i \in 1..Len(frame)} |-> sheet_cells(frame[Len(frame)])] ]

\* for idx, row in df.iterrows(): current_row = start_row + idx; a later write
\* to the same sheet row replaces the earlier one.
save_to_excel_buffer(frame, report_date) ==
    [ title |-> "iril hyujeongyehoek bogo(" \o report_date \o ")",
      data  |-> [r \in {start_row + frame[i].index : i \in 1..Len(frame)} |->
                    LET writers == {i \in 1..Len(frame) : start_row + frame[i].index = r}
                        last    == CHOOSE i \in writers : \A k \in writers : k <= i
                    IN  sheet_cells(frame[last])] ]

(***************************************************************************)
(* The copy of the pipeline beside the cloud adapter,                      *)
(* src/cloud-functions/excel-transform/excel_transformer.py.               *)
(***************************************************************************)
\* transform_data of the cloud copy, lines 152-224: the same loop and the same
\* sort stage (lines 186-224), without the two empty checks of the api copy.
cloud_transform_data(frame) == sort_stage(output_data(frame))

\* main.py line 19 imports parse_html_buffer and save_to_excel_buffer from the
\* module beside it, which defines parse_html_file and save_to_excel instead;
\* the two buffer functions are taken to be those of the api copy, which the
\* specification describes as duplicated across the adapters.
cloud_parse_html_buffer(parser_rows) == parse_html_buffer(parser_rows)
cloud_save_to_excel_buffer(frame, report_date) == save_to_excel_buffer(frame, report_date)

\* parse_html_file, lines 59-102: the same scan and the same shaping, but a
\* ValueError when the parser has fewer than 3 rows (lines 75-76).
parse_html_file(parser_rows) ==
    IF Len(parser_rows) < 3 THEN Raise("ValueError")
    ELSE Return(data_rows(parser_rows))

\* The extract and transform stages of both copies on the same parser rows.
ExtractBoth ==
    /\ pc = "start"
    /\ df' = parse_html_buffer(rows)
    /\ other' = parse_html_file(rows)
    /\ pc' = "extracted"
    /\ UNCHANGED <<rows, out, request, sheet, response, scanner, target_date>>

\* An exception of parse_html_file ends the cloud copy's run.
TransformBoth ==
    /\ pc = "extracted"
    /\ out' = transform_data(df)
    /\ other' = IF other.raised THEN other ELSE cloud_transform_data(other.value)
    /\ pc' = "compared"
    /\ UNCHANGED <<rows, df, request, sheet, response, scanner, target_date>>

NextCopies == ExtractBoth \/ TransformBoth

SpecCopies == Init /\ [][NextCopies]_vars

(***************************************************************************)
(* filter_by_date, lines 105-149 of the cloud copy.                        *)
(***************************************************************************)
\* s.split(' ')[0] if ' ' in s else s, for the date-times of the inputs.
date_part(s) ==
    CASE s = "2024-05-01 09:00" -> "2024-05-01"
      [] s = "2024-05-02 09:00" -> "2024-05-02"
      [] s = "2024-05-01 18:00" -> "2024-05-01"
      [] s = "2024-05-03 18:00" -> "2024-05-03"
      [] OTHER -> s

\* datetime.strptime(s, '%Y-%m-%d').date() as the number yyyymmdd; raises
\* ValueError for any other text.
strptime(s) ==
    CASE s = "2024-05-01" -> Return(20240501)
      [] s = "2024-05-02" -> Return(20240502)
      [] s = "2024-05-03" -> Return(20240503)
      [] OTHER -> Raise("ValueError")

\* Lines 124-142: the test of one row; an exception of either strptime skips the row.
in_period(row, target) ==
    LET start_date == strptime(date_part(row.hyujeonilsi_sijak))
        end_date   == strptime(date_part(row.hyujeonilsi_jongryo))
    IN  /\ ~start_date.raised
        /\ ~end_date.raised
        /\ start_date.value <= target /\ target <= end_date.value

\* Variant of filter_by_date that returns the matching rows even when there are none.
filter_by_date_no_fallback(frame, target) ==
    SelectSeqBy(frame, [r \in {frame[i] : i \in 1..Len(frame)} |-> in_period(r, target)])

\* filter_by_date(df, target_date), with target_date already a date.
filter_by_date(frame, target) ==
    LET filtered_rows ==
            SelectSeqBy(frame, [r \in {frame[i] : i \in 1..Len(frame)} |-> in_period(r, target)])
    IN  IF filtered_rows # <<>> THEN filtered_rows ELSE frame

Ends == {"2024-05-01 18:00", "2024-05-03 18:00", "mijeong"}
FilterStarts == Starts \cup {"2024-05-02"}
TargetDates == {20240430, 20240501, 20240502, 20240503, 20240504}

IsFilterInput(frame) ==
    \E n \in 0..MaxRecords :
        \E start \in [1..n -> FilterStarts], end \in [1..n -> Ends] :
            frame = [i \in 1..n |->
                        [data_row(Cells(i, "jikhal", "ilban", start[i]))
                            EXCEPT !.hyujeonilsi_jongryo = end[i]]]

InitFilter ==
    /\ IsFilterInput(df)
    /\ target_date \in TargetDates
    /\ rows = <<>>
    /\ out = Return(EmptyFrame)
    /\ parser = NewParser /\ tokens = <<>> /\ fed = 0 /\ doc = <<>>
    /\ other = Return(EmptyFrame)
    /\ pc = "filter"
    /\ adapter = "none" /\ method = "" /\ payload = "" /\ response_type = ""
    /\ sheet = NoSheet
    /\ response = NoResponse

FilterByDate ==
    /\ pc = "filter"
    /\ out' = Return(filter_by_date(df, target_date))
    /\ pc' = "filtered"
    /\ UNCHANGED <<rows, df, request, sheet, response, scanner, target_date, other>>

NextFilter == FilterByDate

SpecFilter == InitFilter /\ [][NextFilter]_vars

(***************************************************************************)
(* The two HTTP adapters.                                                  *)
(***************************************************************************)
Methods == {"OPTIONS", "GET", "POST"}
\* A JSON body with a base64 'file', a multipart form with a 'file' part, a
\* body that is no JSON, and a JSON object without 'file'.
Payloads == {"json_file", "form_file", "bad_json", "no_file"}
ResponseTypes == {"json", "binary"}
\* report_date.strftime('%m.%d') of datetime.now()
ReportDates == {"05.01", "12.31"}

\* json.dumps({'success': False, 'error': ...})
failure(error) == [success |-> FALSE, error |-> error]
Response(status, body) == [status |-> status, body |-> body]
\* base64.b64encode(...).decode('utf-8')
b64encode(bytes) == <<"base64", bytes>>

\* The success body of both adapters (api lines 119-125, cloud lines 119-125).
success_body(workbook, report_date, frame) ==
    [ success     |-> TRUE,
      file        |-> b64encode(workbook),
      filename    |-> "iril_hyujeongyehoek_bogo_" \o report_date \o ".xlsx",
      recordCount |-> Len(frame),
      message     |-> ToString(Len(frame)) \o " records converted" ]

\* api handler lines 55-74: the request body to file bytes. A multipart or
\* otherwise non-JSON body fails json.loads; a JSON object without 'file'
\* fails data['file'].
api_decode(load) ==
    CASE load = "json_file" -> Return("bytes")
      [] load = "form_file" -> Raise("JSONDecodeError")
      [] load = "bad_json"  -> Raise("JSONDecodeError")
      [] load = "no_file"   -> Raise("KeyError")

\* cloud handler lines 45-60: request.files, else the JSON body; get_json
\* raises BadRequest on a body that is no JSON; without a file file_content
\* stays None.
cloud_decode(load) ==
    CASE load = "json_file" -> Return("bytes")
      [] load = "form_file" -> Return("bytes")
      [] load = "bad_json"  -> Raise("BadRequest")
      [] load = "no_file"   -> Return("")

\* Requests: the document matters only to a POST that carries a file; the
\* X-Response-Type header is read by the cloud adapter alone.
InitAdapters ==
    /\ adapter \in {"api", "cloud"}
    /\ method \in Methods
    /\ payload \in Payloads
    /\ response_type \in ResponseTypes
    /\ (method # "POST" \/ adapter = "api") => response_type = "json"
    /\ method # "POST" => payload = "no_file"
    /\ IF method = "POST" /\ payload \in {"json_file", "form_file"}
       THEN IsKindDocument(rows)
       ELSE rows = <<>>
    /\ df = EmptyFrame
    /\ out = Return(EmptyFrame)
    /\ parser = NewParser /\ tokens = <<>> /\ fed = 0 /\ doc = <<>>
    /\ target_date = 0 /\ other = Return(EmptyFrame)
    /\ pc = "request"
    /\ sheet = NoSheet
    /\ response = NoResponse

\* api handler lines 24-74 and 128-148: method dispatch and body decoding.
ApiRequest ==
    /\ pc = "request" /\ adapter = "api"
    /\ LET decoded == api_decode(payload)
       IN  IF method = "OPTIONS"
           THEN response' = Response(200, <<>>) /\ pc' = "done"
           ELSE IF method # "POST"
           THEN response' = Response(405, failure("Method not allowed. Use POST."))
                /\ pc' = "done"
           ELSE IF decoded.raised /\ decoded.exc = "JSONDecodeError"
           THEN response' = Response(400, failure("invalid JSON")) /\ pc' = "done"
           ELSE IF decoded.raised
           THEN response' = Response(500, failure("server error: " \o decoded.exc))
                /\ pc' = "done"
           ELSE response' = response /\ pc' = "extract"
    /\ UNCHANGED <<rows, df, out, request, sheet, aside>>

\* api handler lines 77-88.
ApiExtract ==
    /\ pc = "extract" /\ adapter = "api"
    /\ df' = parse_html_buffer(rows)
    /\ IF empty(parse_html_buffer(rows))
       THEN response' = Response(400, failure("no valid data")) /\ pc' = "done"
       ELSE response' = response /\ pc' = "transform"
    /\ UNCHANGED <<rows, out, request, sheet, aside>>

\* api handler lines 93-103, and 138-148 should transform_data raise.
ApiTransform ==
    /\ pc = "transform" /\ adapter = "api"
    /\ LET transformed == transform_data(df)
       IN  /\ out' = transformed
           /\ IF transformed.raised
              THEN response' = Response(500, failure("server error: " \o transformed.exc))
                   /\ pc' = "done"
              ELSE IF empty(transformed.value)
              THEN response' = Response(400, failure("no transformed data")) /\ pc' = "done"
              ELSE response' = response /\ pc' = "render"
    /\ UNCHANGED <<rows, df, request, sheet, aside>>

\* api handler lines 108-126.
ApiRender ==
    /\ pc = "render" /\ adapter = "api"
    /\ \E report_date \in ReportDates :
          LET workbook == save_to_excel_buffer(out.value, report_date)
          IN  /\ sheet' = workbook
              /\ response' = Response(200, success_body(workbook, report_date, out.value))
    /\ pc' = "done"
    /\ UNCHANGED <<rows, df, out, request, aside>>

\* excel_transform lines 33-66 and 129-136: method dispatch and file intake.
CloudRequest ==
    /\ pc = "request" /\ adapter = "cloud"
    /\ LET decoded == cloud_decode(payload)
       IN  IF method = "OPTIONS"
           THEN response' = Response(204, <<>>) /\ pc' = "done"
           ELSE IF method # "POST"
           THEN response' = Response(405, failure("Method not allowed. Use POST."))
                /\ pc' = "done"
           ELSE IF decoded.raised
           THEN response' = Response(500, failure("server error: " \o decoded.exc))
                /\ pc' = "done"
           ELSE IF decoded.value = ""
           THEN response' = Response(400, failure("no file provided")) /\ pc' = "done"
           ELSE response' = response /\ pc' = "extract"
    /\ UNCHANGED <<rows, df, out, request, sheet, aside>>

\* excel_transform lines 71-81.
CloudExtract ==
    /\ pc = "extract" /\ adapter = "cloud"
    /\ df' = cloud_parse_html_buffer(rows)
    /\ IF empty(cloud_parse_html_buffer(rows))
       THEN response' = Response(400, failure("no valid data")) /\ pc' = "done"
       ELSE response' = response /\ pc' = "transform"
    /\ UNCHANGED <<rows, out, request, sheet, aside>>

\* excel_transform lines 86-92, and 129-136 when transform_data raises.
CloudTransform ==
    /\ pc = "transform" /\ adapter = "cloud"
    /\ LET transformed == cloud_transform_data(df)
       IN  /\ out' = transformed
           /\ IF transformed.raised
              THEN response' = Response(500, failure("server error: " \o transformed.exc))
                   /\ pc' = "done"
              ELSE IF empty(transformed.value)
              THEN response' = Response(400, failure("no transformed data")) /\ pc' = "done"
              ELSE response' = response /\ pc' = "render"
    /\ UNCHANGED <<rows, df, request, sheet, aside>>

\* excel_transform lines 97-127: the workbook, then the raw bytes when the
\* request asks for 'binary' and the JSON body otherwise.
CloudRender ==
    /\ pc = "render" /\ adapter = "cloud"
    /\ \E report_date \in ReportDates :
          LET workbook == cloud_save_to_excel_buffer(out.value, report_date)
          IN  /\ sheet' = workbook
              /\ response' = IF response_type = "binary"
                             THEN Response(200, [content |-> workbook])
                             ELSE Response(200, success_body(workbook, report_date, out.value))
    /\ pc' = "done"
    /\ UNCHANGED <<rows, df, out, request, aside>>

NextAdapters ==
    \/ ApiRequest \/ ApiExtract \/ ApiTransform \/ ApiRender
    \/ CloudRequest \/ CloudExtract \/ CloudTransform \/ CloudRender

SpecAdapters == InitAdapters /\ [][NextAdapters]_vars

(***************************************************************************)
(* Properties of the extract/transform pair.                               *)
(***************************************************************************)
Transformed == pc = "transformed"
Final == out.value

\* The five allowed literals and their ranks, as the specification lists them.
FiveSites == {"jikhal", "gangneung", "donghae", "wonju", "taebaek"}
SiteRank(site) ==
    CASE site = "jikhal"    -> 1
      [] site = "gangneung" -> 2
      [] site = "donghae"   -> 3
      [] site = "wonju"     -> 4
      [] site = "taebaek"   -> 5

\* Output record j was made from raw record i (the substation cell is unique
\* to a row of the input documents).
MadeFrom(j, i) ==
    /\ Final[j].byeonjeonso = df[i].byeonjeonso
    /\ Final[j].icha = df[i].saeopso_2cha
    /\ Final[j].hyujeonilsi_sijak = df[i].hyujeonilsi_sijak

AllowedInputs == {i \in 1..Len(df) : df[i].saeopso_2cha \in FiveSites}
Parseable(text) == ~to_datetime(text).isnat
ParsedTime(text) == to_datetime(text).value

\* C1: the output of transform_data holds exactly one record for each input
\* record whose secondary-site is one of the 5 allowed literals and no other
\* record: every output site is allowed, nothing allowed is dropped or doubled.
C1_FilterExact ==
    Transformed =>
        /\ ~out.raised
        /\ \A j \in 1..Len(Final) : Final[j].icha \in FiveSites
        /\ \A i \in 1..Len(df) :
             Cardinality({j \in 1..Len(Final) : MadeFrom(j, i)})
                = IF i \in AllowedInputs THEN 1 ELSE 0
        /\ Len(Final) = Cardinality(AllowedInputs)

\* A mixed input: one allowed and one disallowed record, one output record.
C1_Witness ==
    /\ Transformed
    /\ AllowedInputs # {}
    /\ AllowedInputs # 1..Len(df)
    /\ Len(Final) = Cardinality(AllowedInputs)

\* C2: in a non-empty result the k-th record carries sequence number k, for
\* k = 1..N with N the number of input records that passed the filter.
C2_SequenceNumbers ==
    (Transformed /\ ~out.raised /\ Final # <<>>) =>
        /\ Len(Final) = Cardinality(AllowedInputs)
        /\ \A k \in 1..Len(Final) : Final[k].sunbeon = k

\* Two retained records numbered 1 and 2 in final order: number 1 is the
\* record that came second in the input.
C2_Witness ==
    /\ Transformed
    /\ Len(Final) = 2
    /\ Final[1].sunbeon = 1 /\ Final[2].sunbeon = 2
    /\ \E i, k \in 1..Len(df) : i < k /\ MadeFrom(2, i) /\ MadeFrom(1, k)

\* C3: every outage record comes before every live-work record in the final
\* order, whatever their site ranks and start-times.
C3_OutageFirst ==
    Transformed =>
        \A j, k \in 1..Len(Final) :
            (Final[j].gubun = "hyujeon" /\ Final[k].gubun = "hwalseon") => j < k

\* Scenario B: an outage record with the later start and the higher site rank
\* stands before a live-work record that came first in the input.
C3_Witness ==
    /\ Transformed
    /\ Len(Final) = 2
    /\ Final[1].gubun = "hyujeon" /\ Final[2].gubun = "hwalseon"
    /\ Parseable(Final[1].hyujeonilsi_sijak) /\ Parseable(Final[2].hyujeonilsi_sijak)
    /\ ParsedTime(Final[1].hyujeonilsi_sijak) > ParsedTime(Final[2].hyujeonilsi_sijak)
    /\ SiteRank(Final[1].icha) > SiteRank(Final[2].icha)
    /\ \E i, k \in 1..Len(df) : i < k /\ MadeFrom(2, i) /\ MadeFrom(1, k)

\* C4: within a classification group the records are non-decreasing by
\* (site rank, parsed start-time): no lower rank after a higher one, and among
\* equal ranks no earlier parsed start-time after a later one.
C4_GroupSorted ==
    Transformed =>
        \A j, k \in 1..Len(Final) :
            (j < k /\ Final[j].gubun = Final[k].gubun) =>
                /\ SiteRank(Final[j].icha) <= SiteRank(Final[k].icha)
                /\ ( /\ SiteRank(Final[j].icha) = SiteRank(Final[k].icha)
                     /\ Parseable(Final[j].hyujeonilsi_sijak)
                     /\ Parseable(Final[k].hyujeonilsi_sijak) )
                   => ParsedTime(Final[j].hyujeonilsi_sijak)
                        <= ParsedTime(Final[k].hyujeonilsi_sijak)

\* The sort moved something: two records of one group and one site, the one
\* with the earlier start second in the input and first in the output.
C4_Witness ==
    /\ Transformed
    /\ \E j, k \in 1..Len(Final), i, m \in 1..Len(df) :
          /\ j < k /\ m < i
          /\ MadeFrom(j, i) /\ MadeFrom(k, m)
          /\ Final[j].gubun = Final[k].gubun
          /\ Final[j].icha = Final[k].icha
          /\ Parseable(Final[j].hyujeonilsi_sijak) /\ Parseable(Final[k].hyujeonilsi_sijak)
          /\ ParsedTime(Final[j].hyujeonilsi_sijak) < ParsedTime(Final[k].hyujeonilsi_sijak)

\* Two raw records have the same sort key: same site rank and same parsed
\* start-time, two unparseable start-times counting as the same.
SameKey(i, k) ==
    /\ SiteRank(df[i].saeopso_2cha) = SiteRank(df[k].saeopso_2cha)
    /\ Parseable(df[i].hyujeonilsi_sijak) = Parseable(df[k].hyujeonilsi_sijak)
    /\ Parseable(df[i].hyujeonilsi_sijak) =>
          ParsedTime(df[i].hyujeonilsi_sijak) = ParsedTime(df[k].hyujeonilsi_sijak)

SameGroup(i, k) ==
    (df[i].susokjeolcha = "hwalseonjageop") = (df[k].susokjeolcha = "hwalseonjageop")

\* C5: the per-group sort is stable: two records of one classification with
\* equal site rank and equal parsed start-time (both unparseable included)
\* keep their input order.
C5_Stable ==
    Transformed =>
        \A i, k \in AllowedInputs :
            (i < k /\ SameGroup(i, k) /\ SameKey(i, k)) =>
                \A j, m \in 1..Len(Final) : (MadeFrom(j, i) /\ MadeFrom(m, k)) => j < m

\* Two records of one group with the same site and both start-times
\* unparseable, in input order in the output.
C5_Witness ==
    /\ Transformed
    /\ \E i, k \in AllowedInputs :
          /\ i < k /\ SameGroup(i, k) /\ SameKey(i, k)
          /\ ~Parseable(df[i].hyujeonilsi_sijak)
          /\ \E j, m \in 1..Len(Final) : MadeFrom(j, i) /\ MadeFrom(m, k) /\ j < m

\* C6 as stated: within a classification group every record with an
\* unparseable start-time comes after every record of the group with a
\* parseable one, whatever the site ranks.
C6_UnparseableLastInGroup ==
    Transformed =>
        \A j, k \in 1..Len(Final) :
            ( /\ Final[j].gubun = Final[k].gubun
              /\ Parseable(Final[j].hyujeonilsi_sijak)
              /\ ~Parseable(Final[k].hyujeonilsi_sijak) ) => j < k

\* C6 amended: within a classification group and among the records of one
\* site rank, every record with an unparseable start-time comes after every
\* record with a parseable one.
C6_UnparseableLastInRank ==
    Transformed =>
        \A j, k \in 1..Len(Final) :
            ( /\ Final[j].gubun = Final[k].gubun
              /\ SiteRank(Final[j].icha) = SiteRank(Final[k].icha)
              /\ Parseable(Final[j].hyujeonilsi_sijak)
              /\ ~Parseable(Final[k].hyujeonilsi_sijak) ) => j < k

\* Two records of one group and one site, the unparseable one first in the
\* input and last in the output.
C6_Witness ==
    /\ Transformed
    /\ \E j, k \in 1..Len(Final), i, m \in 1..Len(df) :
          /\ j < k /\ m < i
          /\ MadeFrom(j, i) /\ MadeFrom(k, m)
          /\ Final[j].gubun = Final[k].gubun
          /\ Final[j].icha = Final[k].icha
          /\ Parseable(Final[j].hyujeonilsi_sijak)
          /\ ~Parseable(Final[k].hyujeonilsi_sijak)

\* C7: a retained record is live-work exactly when the raw procedure field is
\* the live-line-work literal and outage otherwise; the other fields are copied
\* from the same raw record and the safety manager is the empty string.
C7_ClassifyAndCopy ==
    Transformed =>
        \A j \in 1..Len(Final) :
            \E i \in 1..Len(df) :
                /\ MadeFrom(j, i)
                /\ Final[j].gubun \in {"hwalseon", "hyujeon"}
                /\ (Final[j].gubun = "hwalseon") <=> (df[i].susokjeolcha = "hwalseonjageop")
                /\ Final[j].hyujeonilsi_sijak = df[i].hyujeonilsi_sijak
                /\ Final[j].hyujeonilsi_jongryo = df[i].hyujeonilsi_jongryo
                /\ Final[j].icha = df[i].saeopso_2cha
                /\ Final[j].byeonjeonso = df[i].byeonjeonso
                /\ Final[j].jeonap = df[i].jeonap
                /\ Final[j].seolbimyeong = df[i].seolbimyeong
                /\ Final[j].gongsagaeyo = df[i].gongsagaeyo
                /\ Final[j].gubun2 = df[i].gubun
                /\ Final[j].jugwanbuseo = df[i].jugwanbuseo
                /\ Final[j].gamdokja = df[i].gamdokja
                /\ Final[j].anjeongwanrija = ""

\* One record of each classification in the output.
C7_Witness ==
    /\ Transformed
    /\ \E j, k \in 1..Len(Final) :
          /\ Final[j].gubun = "hwalseon" /\ Final[k].gubun = "hyujeon"
          /\ Final[j].gubun2 = "dangil"

NoFullBodyRow == \A i \in 4..Len(rows) : Len(rows[i]) < 15

\* C8: parse_html_buffer followed by transform_data returns the empty frame
\* and does not raise when fewer than 3 rows were parsed, when no row after the
\* first 3 has 15 cells, when transform_data is given an empty frame, and when
\* every extracted record has a disallowed site.
C8_EmptyMarker ==
    /\ (pc # "start" /\ (Len(rows) < 3 \/ NoFullBodyRow)) => df = EmptyFrame
    /\ (Transformed /\ (Len(rows) < 3 \/ NoFullBodyRow \/ df = <<>> \/ AllowedInputs = {}))
          => out = Return(EmptyFrame)

\* Every extracted record has a disallowed site, and there is one.
C8_Witness ==
    /\ Transformed
    /\ df # <<>>
    /\ AllowedInputs = {}
    /\ out = Return(EmptyFrame)

\* The other cases of C8 are reached too.
C8_WitnessFewRows == Transformed /\ Len(rows) < 3 /\ Len(rows) > 0 /\ out = Return(EmptyFrame)
C8_WitnessShortRows ==
    Transformed /\ Len(rows) > 3 /\ NoFullBodyRow /\ out = Return(EmptyFrame)

(***************************************************************************)
(* Properties of the HTTP adapters.                                        *)
(***************************************************************************)
Answered == pc = "done"
FileDecoded == method = "POST" /\ payload \in {"json_file", "form_file"}
\* The api adapter reads the file from a JSON body only.
FileReceived == FileDecoded /\ (adapter = "api" => payload = "json_file")

\* EmptyInput: fewer than 3 rows parsed, or no row after them with 15 cells.
EmptyInput == Len(rows) < 3 \/ NoFullBodyRow
\* EmptyAfterFilter: records were extracted and none has an allowed site.
EmptyAfterFilter ==
    /\ ~EmptyInput
    /\ \A i \in 4..Len(rows) : Len(rows[i]) >= 15 => rows[i][2] \notin FiveSites

FailureShape(body) ==
    /\ DOMAIN body = {"success", "error"}
    /\ body.success = FALSE
    /\ body.error # ""

DataRows == DOMAIN sheet.data

SuccessShape(body) ==
    /\ DOMAIN body = {"success", "file", "filename", "recordCount", "message"}
    /\ body.success = TRUE
    /\ body.recordCount = Len(out.value)
    /\ body.recordCount >= 1
    /\ body.recordCount = Cardinality(DataRows)

\* C9: in both adapters a POST whose file yields EmptyInput or
\* EmptyAfterFilter is answered with status 400 and a failure body, and the
\* render stage is not invoked for it.
C9_EmptyIsClientError ==
    (Answered /\ FileReceived /\ (EmptyInput \/ EmptyAfterFilter)) =>
        /\ response.status = 400
        /\ FailureShape(response.body)
        /\ sheet = NoSheet

\* C9 holds of the api adapter.
C9_ApiEmptyIsClientError == adapter = "api" => C9_EmptyIsClientError
\* In the cloud adapter EmptyInput is answered as C9 says.
C9_CloudEmptyInputIsClientError ==
    (adapter = "cloud" /\ EmptyInput) => C9_EmptyIsClientError
\* An api POST of a document whose records are all of a disallowed site.
C9_ApiWitness ==
    /\ Answered /\ adapter = "api" /\ FileReceived /\ EmptyAfterFilter
    /\ response.status = 400

\* C10 as stated: every response to a POST is the success shape, with
\* recordCount the number of records returned by transform_data (at least 1)
\* and the number of data rows rendered, or the failure shape.
C10_TwoShapes ==
    (Answered /\ method = "POST") =>
        SuccessShape(response.body) \/ FailureShape(response.body)

\* The cloud adapter's answer to X-Response-Type: binary: the workbook bytes
\* themselves, with one data row per record returned by transform_data.
BinaryShape(body) ==
    /\ DOMAIN body = {"content"}
    /\ body.content = sheet
    /\ Len(out.value) >= 1
    /\ Cardinality(DataRows) = Len(out.value)

\* C10 amended: every response to a POST is the success shape or the failure
\* shape, or, from the cloud adapter to a request with X-Response-Type
\* 'binary' whose conversion succeeded, the raw workbook bytes.
C10_ThreeShapes ==
    (Answered /\ method = "POST") =>
        \/ SuccessShape(response.body)
        \/ FailureShape(response.body)
        \/ adapter = "cloud" /\ response_type = "binary" /\ BinaryShape(response.body)

\* A success response that counts two records, both rendered.
C10_Witness ==
    /\ Answered /\ method = "POST"
    /\ SuccessShape(response.body)
    /\ response.body.recordCount = 2
    /\ DataRows = {6, 7}

\* The binary answer and each failure status are reached too.
C10_WitnessBinary == Answered /\ method = "POST" /\ BinaryShape(response.body) /\ DataRows = {6, 7}
C10_WitnessServerError == Answered /\ method = "POST" /\ response.status = 500 /\ adapter = "api"


(***************************************************************************)
(* The tag scanner and the shaping of its rows.                            *)
(***************************************************************************)
Scanned == pc \in {"start", "parsed"} /\ doc # <<>>

\* The column names of the extracted frame, in the order of the cells.
FieldNames ==
    << "saeopso_1cha", "saeopso_2cha", "byeonjeonso", "jeonap", "seolbimyeong",
       "gongsamyeong", "gongsagaeyo", "hyujeonilsi_sijak", "hyujeonilsi_jongryo",
       "gubun", "jugwanbuseo", "gamdokja", "dogeupeopchemyeong", "susokjeolcha",
       "hyujeonjongryu" >>

\* The rows of a table as written: the row numbers, in document order, of
\* the rows that have a cell, and the trimmed texts of such a row.
WrittenRows(widths) == SelectSeq([r \in 1..Len(widths) |-> r], LAMBDA r : widths[r] > 0)
WrittenCells(x, r, width) == [c \in 1..width |-> cell_text(x, r, c)]
WrittenTable(x, widths) ==
    LET written == WrittenRows(widths)
    IN  [i \in 1..Len(written) |-> WrittenCells(x, written[i], widths[written[i]])]

\* The row numbers of the records of a one-table document: its written rows
\* from the 4th onward that have at least 15 cells.
RecordRows(widths) ==
    LET written == WrittenRows(widths)
    IN  SelectSeq(SubSeq(written, 4, Len(written)), LAMBDA r : widths[r] >= 15)

\* C11: for a document of one well-formed table, parse_html_buffer returns
\* one record for each parsed row from the 4th onward that has at least 15
\* cells, in document order, and field i of the record is the trimmed text of
\* cell i of its row, for the first 15 cells.
C11_HeaderSkipAndShaping ==
    (pc = "parsed" /\ doc # <<>> /\ doc.family = "single") =>
        LET kept == RecordRows(doc.widths)
        IN  /\ rows = WrittenTable("t", doc.widths)
            /\ Len(df) = Len(kept)
            /\ \A i \in 1..Len(kept) :
                  /\ DOMAIN df[i] = {FieldNames[c] : c \in 1..15}
                  /\ \A c \in 1..15 : df[i][FieldNames[c]] = cell_text("t", kept[i], c)

\* A table of five rows with a cell, of which the 2nd is a full row, the 4th
\* has 16 cells and the 5th has 15, with an empty row between them.
C11_Witness ==
    /\ pc = "parsed" /\ doc # <<>> /\ doc.family = "single"
    /\ Len(doc.widths) = 5
    /\ doc.widths = <<14, 15, 14, 0, 16>> \/ doc.widths = <<14, 15, 14, 16, 15>>
    /\ Len(df) >= 1
    /\ df[1].hyujeonjongryu = <<"t", (IF doc.widths[4] = 0 THEN "5" ELSE "4"), " ", "f">>

C11_WitnessTwoRecords ==
    /\ pc = "parsed" /\ doc # <<>> /\ doc.family = "single"
    /\ doc.widths = <<14, 15, 14, 16, 15>>
    /\ Len(df) = 2

\* All the text written between the tags of a token sequence.
TextOf(toks) == Flatten([i \in 1..Len(toks) |-> toks[i].data])

\* C12 (as claimed): with a table nested in a cell, the row list holds the
\* rows of the outer table only, the row of that cell keeps the cells before
\* it, and the cell holds its own text and the text of the nested cells.
C12_NestedTextInEnclosingCell ==
    (Scanned /\ doc.family = "nested") =>
        LET k == doc.before + 1
        IN  /\ Len(rows) = doc.before + 1 + doc.after
            /\ Len(rows[k]) = doc.lead + 1 + doc.trail
            /\ SubSeq(rows[k], 1, doc.lead) = WrittenCells("t", k, doc.lead)
            /\ rows[k][doc.lead + 1] =
                  strip(<<"o", " ">> \o TextOf(TableTokens("n", doc.inner)) \o <<" ", "p">>)

\* C13 (as claimed): of two tables, one after the other, only the rows of the
\* first are in the row list.
C13_FirstTableOnly ==
    (Scanned /\ doc.family = "two") => rows = WrittenTable("t", doc.first)

\* C13 (amended): of two well-formed tables, one after the other, the row
\* list holds the rows of the first followed by the rows of the second.
C13_EveryTableInOrder ==
    (Scanned /\ doc.family = "two") =>
        rows = WrittenTable("t", doc.first) \o WrittenTable("s", doc.second)

C13_Witness ==
    /\ Scanned /\ doc.family = "two"
    /\ doc.first = <<2, 0>> /\ doc.second = <<1, 2>>
    /\ Len(rows) = 3
    /\ rows[3] = <<<<"s", "2", " ", "1">>, <<"s", "2", " ", "2">>>>

\* The rows parse_html_buffer reads are the rows of the parser.
RowsOfParser == rows = parser.rows

\* C15 (as claimed): in_cell implies in_row, and in_row implies in_table.
C15_FlagsNested ==
    /\ parser.in_cell => parser.in_row
    /\ parser.in_row => parser.in_table

\* C16 (as claimed): a handler call leaves the rows appended so far as they
\* are, in number and in content.
C16_RowsAppendOnly ==
    [][/\ Len(parser'.rows) >= Len(parser.rows)
       /\ SubSeq(parser'.rows, 1, Len(parser.rows)) = parser.rows]_vars


(***************************************************************************)
(* The data rows of the worksheet.                                         *)
(***************************************************************************)
Rendered == Answered /\ adapter = "api" /\ response.status = 200

\* C14: the k-th of the N records returned by transform_data is written to
\* sheet row 5 + k, the rows written are exactly 6..5+N, and the formula in
\* column 2 of row 5 + k shows the record's stored sequence number k.
C14_RecordPerSheetRow ==
    Rendered =>
        /\ DataRows = {5 + k : k \in 1..Len(Final)}
        /\ \A k \in 1..Len(Final) :
              /\ sheet.data[5 + k] = sheet_cells(Final[k])
              /\ cell_value(sheet.data[5 + k][2], 5 + k) = Final[k].sunbeon
              /\ Final[k].sunbeon = k

\* Two records of which the second of the input is the first of the result.
C14_Witness ==
    /\ Rendered
    /\ Len(Final) = 2
    /\ Final[1].byeonjeonso = "S5" /\ Final[2].byeonjeonso = "S4"
    /\ sheet.data[6][6] = "S5" /\ sheet.data[7][6] = "S4"


(***************************************************************************)
(* The two copies of the pipeline.                                         *)
(***************************************************************************)
\* C17 (as claimed): the extract stages of the two copies give the same
\* outcome, and so do the extract and transform stages together; neither
\* copy raises.
C17_CopiesAgree ==
    /\ pc = "extracted" => other = Return(df)
    /\ pc = "compared" => other = out

\* Where the api copy returns records, the cloud copy returns the same.
C17_CopiesAgreeOnRecords ==
    (pc = "compared" /\ ~out.raised /\ ~empty(out.value)) => other = out

(***************************************************************************)
(* The date filter.                                                        *)
(***************************************************************************)
Filtered == pc = "filtered"

\* Dates as numbers yyyymmdd; 0 for a text that is no date-time.
DateOf(s) ==
    CASE s \in {"2024-05-01 09:00", "2024-05-01 18:00"} -> 20240501
      [] s \in {"2024-05-02 09:00", "2024-05-02"} -> 20240502
      [] s = "2024-05-03 18:00" -> 20240503
      [] OTHER -> 0

OfTargetDate(r) ==
    /\ DateOf(r.hyujeonilsi_sijak) # 0
    /\ DateOf(r.hyujeonilsi_jongryo) # 0
    /\ DateOf(r.hyujeonilsi_sijak) <= target_date
    /\ target_date <= DateOf(r.hyujeonilsi_jongryo)

\* The records of the input that are of the target date, in input order.
RecordsOfTargetDate == SelectSeq(df, OfTargetDate)

C18_WitnessFallback ==
    /\ Filtered
    /\ Len(df) = 2 /\ Final = df
    /\ ~OfTargetDate(df[1]) /\ ~OfTargetDate(df[2])
    /\ DateOf(df[1].hyujeonilsi_sijak) # 0 /\ DateOf(df[1].hyujeonilsi_jongryo) # 0

====
